---- MODULE Spec2Model ----
(***************************************************************************)
(* Model of the MES workflow server (src/src/index.ts): the task filter,   *)
(* the ancestor search, the loop pairing, the Mermaid compiler and the     *)
(* tool handlers that read and write the client stores.                    *)
(*                                                                         *)
(* JavaScript strings whose characters matter (ids, outcomes, names) are   *)
(* sequences of one-character strings; null and undefined are the          *)
(* sentinels Null and Undefined, which no such sequence equals.            *)
(***************************************************************************)
EXTENDS Integers, Sequences, FiniteSets, TLC

VARIABLES
    tasks,            \* data/tasks.json: the task library, in file order
    decisions,        \* data/decisions.json: the decision library
    clientDecisions,  \* data/client_decisions.json: client -> decision id -> answer
    clientWorkflows,  \* data/client_workflows.json: client -> saved workflow
    resp,             \* the last call: its arguments, its locals and its reply
    exportFiles,      \* exports/<client>/<file>: path -> what the file holds
    clock,            \* the wall clock, in whole seconds
    saveCalls         \* the save_client_decision calls in flight, by call number

vars == <<tasks, decisions, clientDecisions, clientWorkflows, resp,
          exportFiles, clock, saveCalls>>

\* What the calls that neither export nor run concurrently leave alone.
aside == <<exportFiles, clock, saveCalls>>

\* No export written, the clock at the epoch, no save in flight.
RestInit ==
    /\ exportFiles = << >>
    /\ clock = 0
    /\ saveCalls = << >>

----------------------------------------------------------------------------
(* Strings *)

Null == <<"null">>
Undefined == <<"undefined">>

\* JavaScript truthiness of a string-or-null value.
Truthy(s) == s # Null /\ s # Undefined /\ s # <<>>

Range(f) == {f[i] : i \in DOMAIN f}

\* String.prototype.startsWith
StartsWith(s, p) == Len(s) >= Len(p) /\ SubSeq(s, 1, Len(p)) = p

\* String.prototype.includes
Contains(s, sub) ==
    \E i \in 0..(Len(s) - Len(sub)) : \A k \in 1..Len(sub) : s[i + k] = sub[k]

\* String.prototype.trim (the only whitespace of the model's alphabet is " ")
RECURSIVE TrimLeft(_)
TrimLeft(s) == IF s # <<>> /\ Head(s) = " " THEN TrimLeft(Tail(s)) ELSE s

RECURSIVE TrimRight(_)
TrimRight(s) ==
    IF s # <<>> /\ s[Len(s)] = " " THEN TrimRight(SubSeq(s, 1, Len(s) - 1)) ELSE s

Trim(s) == TrimRight(TrimLeft(s))

\* String.prototype.split on a one-character separator: the pieces, in order.
RECURSIVE SplitFrom(_, _, _)
SplitFrom(s, sep, cur) ==
    IF s = <<>> THEN <<cur>>
    ELSE IF Head(s) = sep THEN <<cur>> \o SplitFrom(Tail(s), sep, <<>>)
    ELSE SplitFrom(Tail(s), sep, Append(cur, Head(s)))

Split(s, sep) == SplitFrom(s, sep, <<>>)

\* Array.prototype.map
MapSeq(Op(_), xs) == [i \in DOMAIN xs |-> Op(xs[i])]

\* Array.prototype.filter
RECURSIVE FilterSeq(_, _)
FilterSeq(Keep(_), xs) ==
    IF xs = <<>> THEN <<>>
    ELSE IF Keep(Head(xs)) THEN <<Head(xs)>> \o FilterSeq(Keep, Tail(xs))
    ELSE FilterSeq(Keep, Tail(xs))

\* All sequences over S of length at most n.
SeqsUpTo(S, n) == UNION {[1..k -> S] : k \in 0..n}

----------------------------------------------------------------------------
(* The inclusion filter *)

RuntimePrefix == <<"C", "-">>

\* decisions[id]?.selected_outcome
SelectedOutcome(answers, id) ==
    IF id \in DOMAIN answers THEN answers[id].selected_outcome ELSE Undefined

\* Variant: runtime conditions are looked up like practice decisions.
shouldIncludeTask_NoRuntime(task, answers) ==
    IF ~Truthy(task.decision_id) THEN TRUE
    ELSE LET clientChoice == SelectedOutcome(answers, task.decision_id)
         IN  IF ~Truthy(clientChoice) THEN FALSE
             ELSE clientChoice = task.decision_outcome

\* Variant: an ungated task is looked up like a gated one.
shouldIncludeTask_NoUngated(task, answers) ==
    IF Truthy(task.decision_id) /\ StartsWith(task.decision_id, RuntimePrefix) THEN TRUE
    ELSE LET clientChoice == SelectedOutcome(answers, task.decision_id)
         IN  IF ~Truthy(clientChoice) THEN FALSE
             ELSE clientChoice = task.decision_outcome

\* Variant: an unanswered decision includes the task (a default outcome).
shouldIncludeTask_DefaultIn(task, answers) ==
    IF ~Truthy(task.decision_id) THEN TRUE
    ELSE IF StartsWith(task.decision_id, RuntimePrefix) THEN TRUE
    ELSE LET clientChoice == SelectedOutcome(answers, task.decision_id)
         IN  IF ~Truthy(clientChoice) THEN TRUE
             ELSE IF Truthy(task.decision_outcome) /\ Contains(task.decision_outcome, <<",">>)
                  THEN clientChoice \in Range(MapSeq(Trim, Split(task.decision_outcome, ",")))
                  ELSE clientChoice = task.decision_outcome

\* Variant: the candidates of a multi-outcome gate are not trimmed.
shouldIncludeTask_NoTrim(task, answers) ==
    IF ~Truthy(task.decision_id) THEN TRUE
    ELSE IF StartsWith(task.decision_id, RuntimePrefix) THEN TRUE
    ELSE LET clientChoice == SelectedOutcome(answers, task.decision_id)
         IN  IF ~Truthy(clientChoice) THEN FALSE
             ELSE IF Truthy(task.decision_outcome) /\ Contains(task.decision_outcome, <<",">>)
                  THEN clientChoice \in Range(Split(task.decision_outcome, ","))
                  ELSE clientChoice = task.decision_outcome

shouldIncludeTask(task, answers) ==
    IF ~Truthy(task.decision_id) THEN TRUE
    ELSE IF StartsWith(task.decision_id, RuntimePrefix) THEN TRUE
    ELSE LET clientChoice == SelectedOutcome(answers, task.decision_id)
         IN  IF ~Truthy(clientChoice) THEN FALSE
             ELSE IF Truthy(task.decision_outcome) /\ Contains(task.decision_outcome, <<",">>)
                  THEN clientChoice \in Range(MapSeq(Trim, Split(task.decision_outcome, ",")))
                  ELSE clientChoice = task.decision_outcome

----------------------------------------------------------------------------
(* The ancestor search and the loop pairing *)

HasTask(allTasks, id) == \E i \in DOMAIN allTasks : allTasks[i].id = id

\* Array.prototype.find on the task id: the first task with that id.
FindTask(allTasks, id) ==
    allTasks[CHOOSE i \in DOMAIN allTasks :
                 /\ allTasks[i].id = id
                 /\ \A j \in DOMAIN allTasks : allTasks[j].id = id => i <= j]

\* The while loop of findClosestIncludedAncestor: one iteration per unfolding.
RECURSIVE AncestorLoop(_, _, _, _)
AncestorLoop(queue, visited, allTasks, includedTaskIds) ==
    IF queue = <<>> THEN Null
    ELSE LET currentId == Head(queue)
             rest == Tail(queue)
         IN  IF currentId \in visited
             THEN AncestorLoop(rest, visited, allTasks, includedTaskIds)
             ELSE IF currentId \in includedTaskIds THEN currentId
             ELSE LET more == IF HasTask(allTasks, currentId)
                              THEN FindTask(allTasks, currentId).predecessors
                              ELSE <<>>
                  IN  AncestorLoop(rest \o more, visited \cup {currentId},
                                   allTasks, includedTaskIds)

\* Variant: the predecessors of the current task go to the front of the queue.
RECURSIVE AncestorLoop_DepthFirst(_, _, _, _)
AncestorLoop_DepthFirst(queue, visited, allTasks, includedTaskIds) ==
    IF queue = <<>> THEN Null
    ELSE LET currentId == Head(queue)
             rest == Tail(queue)
         IN  IF currentId \in visited
             THEN AncestorLoop_DepthFirst(rest, visited, allTasks, includedTaskIds)
             ELSE IF currentId \in includedTaskIds THEN currentId
             ELSE LET more == IF HasTask(allTasks, currentId)
                              THEN FindTask(allTasks, currentId).predecessors
                              ELSE <<>>
                  IN  AncestorLoop_DepthFirst(more \o rest, visited \cup {currentId},
                                              allTasks, includedTaskIds)

findClosestIncludedAncestor_DepthFirst(task, allTasks, includedTaskIds) ==
    AncestorLoop_DepthFirst(task.predecessors, {}, allTasks, includedTaskIds)

\* Variant: the search stops at the direct predecessors.
findClosestIncludedAncestor_OneHop(task, allTasks, includedTaskIds) ==
    IF \E i \in DOMAIN task.predecessors : task.predecessors[i] \in includedTaskIds
    THEN task.predecessors[CHOOSE i \in DOMAIN task.predecessors :
             /\ task.predecessors[i] \in includedTaskIds
             /\ \A j \in DOMAIN task.predecessors :
                    task.predecessors[j] \in includedTaskIds => i <= j]
    ELSE Null

findClosestIncludedAncestor(task, allTasks, includedTaskIds) ==
    AncestorLoop(task.predecessors, {}, allTasks, includedTaskIds)

DISP_017 == <<"D", "I", "S", "P", "-", "0", "1", "7">>
DISP_L_001 == <<"D", "I", "S", "P", "-", "L", "-", "0", "0", "1">>
DISP_L_002 == <<"D", "I", "S", "P", "-", "L", "-", "0", "0", "2">>
DISP_SL_001 == <<"D", "I", "S", "P", "-", "S", "L", "-", "0", "0", "1">>
DISP_SL_006 == <<"D", "I", "S", "P", "-", "S", "L", "-", "0", "0", "6">>

\* Variant: no fallback to the id itself for an id outside the table.
findLoopStart_NoFallback(loopEndId) ==
    IF loopEndId = DISP_L_002 THEN DISP_L_001
    ELSE IF loopEndId = DISP_SL_006 THEN DISP_SL_001
    ELSE Null

\* Variant: the last task of the list that names the loop start.
findLoopBodyStart_Last(loopStartId, taskList) ==
    IF \E i \in DOMAIN taskList : loopStartId \in Range(taskList[i].predecessors)
    THEN taskList[CHOOSE i \in DOMAIN taskList :
             /\ loopStartId \in Range(taskList[i].predecessors)
             /\ \A j \in DOMAIN taskList :
                    loopStartId \in Range(taskList[j].predecessors) => j <= i].id
    ELSE Null

findLoopStart(loopEndId) ==
    IF loopEndId = DISP_L_002 THEN DISP_L_001
    ELSE IF loopEndId = DISP_SL_006 THEN DISP_SL_001
    ELSE loopEndId

findLoopBodyStart(loopStartId, taskList) ==
    IF \E i \in DOMAIN taskList : loopStartId \in Range(taskList[i].predecessors)
    THEN taskList[CHOOSE i \in DOMAIN taskList :
             /\ loopStartId \in Range(taskList[i].predecessors)
             /\ \A j \in DOMAIN taskList :
                    loopStartId \in Range(taskList[j].predecessors) => i <= j].id
    ELSE Null

----------------------------------------------------------------------------
(* The Mermaid compiler.  The diagram text is a sequence of lines; a line  *)
(* is a record of its kind and of the parts the program fills in.          *)

\* task.id.replace(/-/g, '_')
NodeId(id) == [i \in DOMAIN id |-> IF id[i] = "-" THEN "_" ELSE id[i]]

stageOrder ==
    << "Pre-Dispensing", "Material Allocation", "Weighing & Dispensing",
       "Labeling & Documentation", "Post-Dispensing" >>

Q_SEC_01 == <<"Q", "-", "S", "E", "C", "-", "0", "1">>
Q_ERP_01 == <<"Q", "-", "E", "R", "P", "-", "0", "1">>
BothPaths ==
    << "B", "o", "t", "h", " ", "(", "m", "a", "t", "e", "r", "i", "a", "l", "-",
       "d", "e", "p", "e", "n", "d", "e", "n", "t", ")" >>
WeighingOnly == <<"W", "e", "i", "g", "h", "i", "n", "g", " ", "o", "n", "l", "y">>
SealedOnly == <<"S", "e", "a", "l", "e", "d", " ", "o", "n", "l", "y">>
SAP == <<"S", "A", "P">>
MES == <<"M", "E", "S">>

DEC_C_SEC_01 == <<"D", "E", "C", "_", "C", "_", "S", "E", "C", "_", "0", "1">>
DecPrefix == <<"D", "E", "C", "_">>
LabelSealed == <<"Y", "e", "s", " ", "S", "e", "a", "l", "e", "d">>
LabelWeighing == <<"N", "o", " ", "W", "e", "i", "g", "h", "i", "n", "g">>
LabelContainer == <<"s", "e", "a", "l", "e", "d", "?">>
LabelException == <<"e", "x", "c", "e", "p", "t", "i", "o", "n">>
LabelYes == <<"Y", "e", "s">>
GuardLabelMax == 40

SubgraphLine(stage) == [kind |-> "subgraph", stage |-> stage]
EndLine == [kind |-> "end"]
NodeLine(task, shape) ==
    [kind |-> "node", id |-> NodeId(task.id), task |-> task.id, name |-> task.name,
     shape |-> shape]
ClassLine(nodeId, cls) == [kind |-> "class", id |-> nodeId, cls |-> cls]
DecisionLine(nodeId, label) == [kind |-> "decision", id |-> nodeId, label |-> label]
EdgeLine(from, to, label, style) ==
    [kind |-> "edge", from |-> from, to |-> to, label |-> label, style |-> style]

\* The node definition and class lines of one task.
TaskNodeLines(task) ==
    IF task.type = "Macro"
    THEN << NodeLine(task, "double"), ClassLine(NodeId(task.id), "macroStyle") >>
    ELSE IF task.type = "Loop-Start" \/ task.type = "Loop-End"
    THEN << NodeLine(task, "circle"), ClassLine(NodeId(task.id), "loopStyle") >>
    ELSE << NodeLine(task, "rect"),
            ClassLine(NodeId(task.id),
                      IF task.edge_type = "exception" THEN "exceptionStyle"
                      ELSE "microStyle") >>

RECURSIVE ConcatAll(_)
ConcatAll(xss) == IF xss = <<>> THEN <<>> ELSE Head(xss) \o ConcatAll(Tail(xss))

\* The subgraph of one stage: nothing when no filtered task has that stage.
StageLines(stage, filteredTasks) ==
    LET inStage(t) == t.stage = stage
        members == FilterSeq(inStage, filteredTasks)
    IN  IF members = <<>> THEN <<>>
        ELSE <<SubgraphLine(stage)>> \o ConcatAll(MapSeq(TaskNodeLines, members))
             \o <<EndLine>>

NodeSection(filteredTasks) ==
    LET one(stage) == StageLines(stage, filteredTasks)
    IN  ConcatAll(MapSeq(one, stageOrder))

isBothPathsOf(answers) == SelectedOutcome(answers, Q_SEC_01) = BothPaths

\* The routing diamond after DISP-017 when both container paths are chosen.
RoutingSection(includedTaskIds, answers) ==
    IF isBothPathsOf(answers) /\ DISP_017 \in includedTaskIds
    THEN << DecisionLine(DEC_C_SEC_01, LabelContainer),
            ClassLine(DEC_C_SEC_01, "decisionStyle"),
            EdgeLine(NodeId(DISP_017), DEC_C_SEC_01, Null, "solid") >>
         \o (IF DISP_SL_001 \in includedTaskIds
             THEN <<EdgeLine(DEC_C_SEC_01, NodeId(DISP_SL_001), LabelSealed, "solid")>>
             ELSE <<>>)
         \o (IF DISP_L_001 \in includedTaskIds
             THEN <<EdgeLine(DEC_C_SEC_01, NodeId(DISP_L_001), LabelWeighing, "solid")>>
             ELSE <<>>)
    ELSE <<>>

\* The lower-case form of an upper-case letter (the /i flag of the loop regex).
Lower(c) ==
    LET up == << "A", "B", "C", "D", "E", "F", "G", "H", "I", "J", "K", "L", "M",
                 "N", "O", "P", "Q", "R", "S", "T", "U", "V", "W", "X", "Y", "Z" >>
        lo == << "a", "b", "c", "d", "e", "f", "g", "h", "i", "j", "k", "l", "m",
                 "n", "o", "p", "q", "r", "s", "t", "u", "v", "w", "x", "y", "z" >>
    IN  IF \E i \in DOMAIN up : up[i] = c
        THEN lo[CHOOSE i \in DOMAIN up : up[i] = c]
        ELSE c

\* String.prototype.replace with a literal pattern under the flags g and i.
RECURSIVE ReplaceAllCI(_, _, _)
ReplaceAllCI(s, pat, rep) ==
    IF Len(s) < Len(pat) THEN s
    ELSE IF MapSeq(Lower, SubSeq(s, 1, Len(pat))) = MapSeq(Lower, pat)
    THEN rep \o ReplaceAllCI(SubSeq(s, Len(pat) + 1, Len(s)), pat, rep)
    ELSE <<Head(s)>> \o ReplaceAllCI(Tail(s), pat, rep)

RunningTotalPattern ==
    << "R", "u", "n", "n", "i", "n", "g", "T", "o", "t", "a", "l", " ", ">", "=",
       " ", "T", "a", "r", "g", "e", "t" >>
TargetNotReached ==
    << "T", "a", "r", "g", "e", "t", " ", "n", "o", "t", " ", "r", "e", "a", "c",
       "h", "e", "d" >>

\* Whether the task's edges pass through a runtime decision diamond.
IsRuntimeGuarded(task) ==
    /\ Truthy(task.guard_condition)
    /\ Truthy(task.decision_id)
    /\ StartsWith(task.decision_id, RuntimePrefix)

\* The body of "for (const pred of validPredecessors)": acc holds the lines
\* emitted so far and the decision nodes created so far.
RECURSIVE PredLoop(_, _, _)
PredLoop(preds, task, acc) ==
    IF preds = <<>> THEN acc
    ELSE
    LET pred == Head(preds)
        predId == NodeId(pred)
        nodeId == NodeId(task.id)
    IN  IF IsRuntimeGuarded(task)
        THEN LET decisionNodeId == DecPrefix \o NodeId(task.id)
                 conditionLabel == IF Len(task.guard_condition) > GuardLabelMax
                                   THEN task.decision_id
                                   ELSE task.guard_condition
                 fresh == decisionNodeId \notin acc.created
                 intro == IF fresh
                          THEN << DecisionLine(decisionNodeId, conditionLabel),
                                  ClassLine(decisionNodeId, "decisionStyle"),
                                  EdgeLine(predId, decisionNodeId, Null, "solid") >>
                          ELSE <<>>
                 edgeLabel == IF Truthy(task.decision_outcome)
                              THEN task.decision_outcome ELSE LabelYes
                 edgeStyle == IF task.edge_type = "exception" THEN "dashed"
                              ELSE "solid"
             IN  PredLoop(Tail(preds), task,
                     [lines |-> acc.lines \o intro
                                \o <<EdgeLine(decisionNodeId, nodeId, edgeLabel, edgeStyle)>>,
                      created |-> acc.created \cup {decisionNodeId}])
        ELSE PredLoop(Tail(preds), task,
                 [lines |-> Append(acc.lines,
                                IF task.edge_type = "exception"
                                THEN EdgeLine(predId, nodeId, LabelException, "dashed")
                                ELSE EdgeLine(predId, nodeId, Null, "solid")),
                  created |-> acc.created])

\* validPredecessors: the included declared predecessors, else the closest ancestor.
\* Variant: the declared predecessors, whether included or not.
ResolvedPredecessors_Declared(task, allTasks, includedTaskIds) == task.predecessors

ResolvedPredecessors(task, allTasks, includedTaskIds) ==
    LET isIn(p) == p \in includedTaskIds
        validPredecessors == FilterSeq(isIn, task.predecessors)
    IN  IF validPredecessors = <<>>
        THEN LET closestAncestor ==
                     findClosestIncludedAncestor(task, allTasks, includedTaskIds)
             IN  IF Truthy(closestAncestor) THEN <<closestAncestor>> ELSE <<>>
        ELSE validPredecessors

\* The dashed back edge of a loop end, or nothing.
LoopBackLines(task, filteredTasks) ==
    IF task.type = "Loop-End" /\ Truthy(task.loop_exit_condition)
    THEN LET loopStartId == findLoopStart(task.id)
             loopBodyStartId == findLoopBodyStart(loopStartId, filteredTasks)
         IN  IF Truthy(loopBodyStartId)
             THEN << EdgeLine(NodeId(task.id), NodeId(loopBodyStartId),
                              ReplaceAllCI(task.loop_exit_condition,
                                           RunningTotalPattern, TargetNotReached),
                              "dashed") >>
             ELSE <<>>
    ELSE <<>>

\* The "continue" of the edge loop: the entry tasks of the two container paths.
SkipsDefaultEdges(task, answers) ==
    isBothPathsOf(answers) /\ (task.id = DISP_L_001 \/ task.id = DISP_SL_001)

\* The body of "for (const task of filteredTasks)" in the edge section.
RECURSIVE EdgeLoop(_, _, _, _, _)
EdgeLoop(rest, filteredTasks, allTasks, answers, acc) ==
    IF rest = <<>> THEN acc
    ELSE
    LET task == Head(rest)
        includedTaskIds == {t.id : t \in Range(filteredTasks)}
    IN  IF SkipsDefaultEdges(task, answers)
        THEN EdgeLoop(Tail(rest), filteredTasks, allTasks, answers, acc)
        ELSE LET afterPreds ==
                     IF task.predecessors # <<>>
                     THEN PredLoop(ResolvedPredecessors(task, allTasks, includedTaskIds),
                                   task, acc)
                     ELSE acc
             IN  EdgeLoop(Tail(rest), filteredTasks, allTasks, answers,
                     [lines |-> afterPreds.lines \o LoopBackLines(task, filteredTasks),
                      created |-> afterPreds.created])

generateMermaidDiagram(filteredTasks, allTasks, answers) ==
    LET includedTaskIds == {t.id : t \in Range(filteredTasks)}
        routing == RoutingSection(includedTaskIds, answers)
        start == [lines |-> NodeSection(filteredTasks) \o routing,
                  created |-> IF routing = <<>> THEN {} ELSE {DEC_C_SEC_01}]
    IN  EdgeLoop(filteredTasks, filteredTasks, allTasks, answers, start).lines

----------------------------------------------------------------------------
(* The annotated diagram: a fixed skeleton, then the lines of the plain    *)
(* diagram that the line filter keeps.                                     *)

\* The parts of a line's text: what the program fills in, and the line's fixed
\* keyword or arrow.  The fixed text between two parts (spaces, brackets,
\* ":<br/>", "|") holds no character sequence that lets a pattern of the filter
\* span two parts, and the stage names of stageOrder and the class names hold
\* none of the patterns, so a pattern is in the line iff it is in one part.
LineParts(l) ==
    CASE l.kind = "subgraph" -> << <<"s", "u", "b", "g", "r", "a", "p", "h">> >>
      [] l.kind = "end" -> << <<"e", "n", "d">> >>
      [] l.kind = "node" -> <<l.id, l.task, l.name>>
      [] l.kind = "class" -> <<l.id>>
      [] l.kind = "decision" -> <<l.id, l.label>>
      [] l.kind = "edge" ->
            << l.from,
               CASE l.style = "solid" -> <<"-", "-", ">">>
                 [] l.style = "dashed" -> <<"-", ".", "-", ">">>
                 [] l.style = "thick" -> <<"=", "=", ">">>,
               IF l.label = Null THEN <<>> ELSE l.label,
               l.to >>

\* line.includes(pattern)
LineIncludes(l, pattern) ==
    LET parts == LineParts(l)
    IN  \E i \in DOMAIN parts : Contains(parts[i], pattern)

HasArrow(l) ==
    \/ LineIncludes(l, <<"-", "-", ">">>)
    \/ LineIncludes(l, <<"-", ".", "-", ">">>)
    \/ LineIncludes(l, <<"=", "=", ">">>)

\* The loop over the lines of the plain diagram (index.ts 523-533).
RECURSIVE ExtractLoop(_, _)
ExtractLoop(lines, inSubgraph) ==
    IF lines = <<>> THEN <<>>
    ELSE LET line == Head(lines)
             entered == inSubgraph
                        \/ LineIncludes(line, <<"s", "u", "b", "g", "r", "a", "p", "h">>)
             kept == IF entered \/ HasArrow(line) THEN <<line>> ELSE <<>>
             left == entered /\ ~LineIncludes(line, <<"e", "n", "d">>)
         IN  kept \o ExtractLoop(Tail(lines), left)

PresentationNode(name) == [kind |-> "presentation", id |-> name]

START == <<"S", "T", "A", "R", "T">>
COMPLETE == <<"C", "O", "M", "P", "L", "E", "T", "E">>
ROUTE == <<"R", "O", "U", "T", "E">>
CONVERGE == <<"C", "O", "N", "V", "E", "R", "G", "E">>
M1 == <<"M", "1">>
M2 == <<"M", "2">>
M3 == <<"M", "3">>
M5 == <<"M", "5">>
M6 == <<"M", "6">>
T014 == <<"T", "0", "1", "4">>
T015 == <<"T", "0", "1", "5">>

\* The hand-written skeleton (index.ts 419-513).
Skeleton(answers) ==
    LET isBothPaths == isBothPathsOf(answers)
        usesSAP == SelectedOutcome(answers, Q_ERP_01) = SAP
    IN  << PresentationNode(START),
           PresentationNode(M1), EdgeLine(START, M1, Null, "solid"),
           PresentationNode(M2), EdgeLine(M1, M2, Null, "thick"),
           PresentationNode(IF usesSAP THEN T014 ELSE T015),
           PresentationNode(M3), EdgeLine(M2, M3, Null, "thick") >>
        \o (IF isBothPaths
            THEN <<PresentationNode(ROUTE), EdgeLine(M3, ROUTE, Null, "solid")>>
            ELSE <<>>)
        \o <<PresentationNode(M5)>>
        \o (IF isBothPaths
            THEN <<PresentationNode(CONVERGE), EdgeLine(CONVERGE, M5, Null, "thick")>>
            ELSE <<>>)
        \o << PresentationNode(M6), EdgeLine(M5, M6, Null, "thick"),
              PresentationNode(COMPLETE), EdgeLine(M6, COMPLETE, Null, "thick") >>

\* Variant: a regenerated diagram carries a marker of the earlier generation.
generateBeautifulMermaidDiagram_Marked(filteredTasks, allTasks, answers, clientName) ==
    Skeleton(answers)
    \o (IF clientName \in DOMAIN clientWorkflows
        THEN <<PresentationNode(<<"R", "E", "G", "E", "N">>)>>
        ELSE <<>>)
    \o ExtractLoop(generateMermaidDiagram(filteredTasks, allTasks, answers), FALSE)

generateBeautifulMermaidDiagram(filteredTasks, allTasks, answers, clientName) ==
    Skeleton(answers)
    \o ExtractLoop(generateMermaidDiagram(filteredTasks, allTasks, answers), FALSE)

----------------------------------------------------------------------------
(* The tool handlers *)

MaxVersion == 2

EmptyMap == << >>

\* clientDecisions[client_name] || {}
AnswersOf(store, client) == IF client \in DOMAIN store THEN store[client] ELSE EmptyMap

HasDecision(lib, id) == \E i \in DOMAIN lib : lib[i].id = id

\* decisions.find((d) => d.id === decision_id)
FindDecision(lib, id) ==
    lib[CHOOSE i \in DOMAIN lib :
            /\ lib[i].id = id
            /\ \A j \in DOMAIN lib : lib[j].id = id => i <= j]

\* The filter generate_workflow applies to the library (index.ts 1057-1062).
FilterTasks(allTasks, answers, stage) ==
    LET keep(task) ==
            IF stage # "All" /\ task.stage # stage THEN FALSE
            ELSE shouldIncludeTask(task, answers)
    IN  FilterSeq(keep, allTasks)

IdsOf(taskList) == {t.id : t \in Range(taskList)}

\* Variant: the store is written before the decision id and outcome are checked.
SaveWrites_Always(found, valid) == TRUE

\* Whether save_client_decision reaches its write (index.ts 816-838).
SaveWrites(found, valid) == found /\ valid

\* Variant: the client's entry is replaced by the new answer alone.
WithAnswer_Alone(old, decision_id, answer) == (decision_id :> answer)

\* clientDecisions[client_name][decision_id] = {...} (index.ts 842-850)
WithAnswer(old, decision_id, answer) == (decision_id :> answer) @@ old

save_client_decision(client_name, decision_id, selected_outcome, rationale) ==
    LET found == HasDecision(decisions, decision_id)
        valid == found /\ \E i \in DOMAIN FindDecision(decisions, decision_id).outcomes :
                     FindDecision(decisions, decision_id).outcomes[i] = selected_outcome
        answer == [selected_outcome |-> selected_outcome,
                   rationale |-> IF Truthy(rationale) THEN rationale ELSE <<>>]
        old == AnswersOf(clientDecisions, client_name)
        written == (client_name :> WithAnswer(old, decision_id, answer)) @@ clientDecisions
    IN  /\ clientDecisions' = IF SaveWrites(found, valid) THEN written ELSE clientDecisions
        /\ resp' = [op |-> "save_client_decision", client |-> client_name,
                    decision_id |-> decision_id, selected_outcome |-> selected_outcome,
                    isError |-> ~(found /\ valid),
                    error |-> IF ~found THEN "NotFound"
                              ELSE IF ~valid THEN "InvalidOutcome" ELSE "none",
                    validOptions |-> IF found /\ ~valid
                                     THEN FindDecision(decisions, decision_id).outcomes
                                     ELSE <<>>]
        /\ UNCHANGED <<tasks, decisions, clientWorkflows>>

OrphanInfo(task, ancestor) ==
    [level |-> "info", check |-> "orphan", task |-> task.id, other |-> ancestor]
OrphanWarning(task) ==
    [level |-> "warning", check |-> "orphan", task |-> task.id, other |-> Null]
LoopWarning(loopEndId, loopStartId) ==
    [level |-> "warning", check |-> "loop", task |-> loopEndId, other |-> loopStartId]

\* Variant: the orphan check warns whether or not an ancestor is found.
OrphanIssues_AllWarnings(task, allTasks, includedTaskIds) ==
    IF task.predecessors # <<>>
       /\ ~\E i \in DOMAIN task.predecessors : task.predecessors[i] \in includedTaskIds
    THEN <<OrphanWarning(task)>>
    ELSE <<>>

\* The orphan check of one filtered task (index.ts 989-1004).
OrphanIssues(task, allTasks, includedTaskIds) ==
    IF task.predecessors # <<>>
       /\ ~\E i \in DOMAIN task.predecessors : task.predecessors[i] \in includedTaskIds
    THEN LET closestAncestor ==
                 findClosestIncludedAncestor(task, allTasks, includedTaskIds)
         IN  IF ~Truthy(closestAncestor) THEN <<OrphanWarning(task)>>
             ELSE <<OrphanInfo(task, closestAncestor)>>
    ELSE <<>>

\* Variant: the loop check warns about every loop end.
LoopIssues_Always(task, includedTaskIds) ==
    IF task.type = "Loop-End"
    THEN <<LoopWarning(task.id, findLoopStart(task.id))>>
    ELSE <<>>

\* The loop check of one filtered task (index.ts 1007-1013).
LoopIssues(task, includedTaskIds) ==
    IF task.type = "Loop-End" /\ findLoopStart(task.id) \notin includedTaskIds
    THEN <<LoopWarning(task.id, findLoopStart(task.id))>>
    ELSE <<>>

\* Variant: validation looks at every stage whatever the stage argument.
ValidateFilterTasks_NoStage(allTasks, answers, stage) ==
    LET keep(task) == shouldIncludeTask(task, answers)
    IN  FilterSeq(keep, allTasks)

\* validate_workflow's own copy of the filter (index.ts 980-983).
ValidateFilterTasks(allTasks, answers, stage) ==
    LET keep(task) ==
            IF stage # "All" /\ task.stage # stage THEN FALSE
            ELSE shouldIncludeTask(task, answers)
    IN  FilterSeq(keep, allTasks)

validate_workflow(client_name, stage) ==
    LET answers == AnswersOf(clientDecisions, client_name)
        filteredTasks == ValidateFilterTasks(tasks, answers, stage)
        includedTaskIds == IdsOf(filteredTasks)
        orphan(task) == OrphanIssues(task, tasks, includedTaskIds)
        loop(task) == LoopIssues(task, includedTaskIds)
        issues == ConcatAll(MapSeq(orphan, filteredTasks))
                  \o ConcatAll(MapSeq(loop, filteredTasks))
    IN  /\ resp' = [op |-> "validate_workflow", client |-> client_name, stage |-> stage,
                    isError |-> FALSE, error |-> "none",
                    filteredTasks |-> filteredTasks, issues |-> issues]
        /\ UNCHANGED <<tasks, decisions, clientDecisions, clientWorkflows>>

\* Variant: the existing version is never read.
ExistingVersion_Zero(store, client) == 0

\* clientWorkflows[client_name]?.version || 0
ExistingVersion(store, client) ==
    IF client \in DOMAIN store THEN store[client].version ELSE 0

\* t.type.includes('Loop'): of the task types, the two that hold "Loop".
IsLoopType(type) == type \in {"Loop-Start", "Loop-End"}

\* Variant: a client without answers gets a workflow all the same.
Unconfigured_Never(answers) == FALSE

\* Object.keys(decisions).length === 0 (index.ts 1042)
Unconfigured(answers) == DOMAIN answers = {}

generate_workflow(client_name, stage) ==
    LET answers == AnswersOf(clientDecisions, client_name)
        filteredTasks == FilterTasks(tasks, answers, stage)
        isMacro(t) == t.type = "Macro"
        isLoop(t) == IsLoopType(t.type)
        saved == [stage |-> stage,
                  version |-> ExistingVersion(clientWorkflows, client_name) + 1,
                  mermaid_code |-> generateBeautifulMermaidDiagram(
                                       filteredTasks, tasks, answers, client_name),
                  metadata |-> [task_count |-> Len(filteredTasks),
                                decision_count |-> Cardinality(DOMAIN answers),
                                macro_count |-> Len(FilterSeq(isMacro, filteredTasks)),
                                loop_count |-> Len(FilterSeq(isLoop, filteredTasks))]]
    IN  IF Unconfigured(answers)
        THEN /\ resp' = [op |-> "generate_workflow", client |-> client_name,
                         stage |-> stage, isError |-> TRUE, error |-> "Unconfigured"]
             /\ UNCHANGED <<tasks, decisions, clientDecisions, clientWorkflows>>
        ELSE /\ ExistingVersion(clientWorkflows, client_name) < MaxVersion
             /\ clientWorkflows' = (client_name :> saved) @@ clientWorkflows
             /\ resp' = [op |-> "generate_workflow", client |-> client_name,
                         stage |-> stage, isError |-> FALSE, error |-> "none",
                         filteredTasks |-> filteredTasks]
             /\ UNCHANGED <<tasks, decisions, clientDecisions>>

\* The read-only calls that report the stores (index.ts 864-970, 1137-1185).

get_client_decisions(client_name) ==
    LET answers == AnswersOf(clientDecisions, client_name)
    IN  /\ resp' = [op |-> "get_client_decisions", client |-> client_name,
                    isError |-> FALSE, error |-> "none",
                    count |-> Cardinality(DOMAIN answers), entries |-> answers]
        /\ UNCHANGED <<tasks, decisions, clientDecisions, clientWorkflows>>

list_clients ==
    LET clients == DOMAIN clientDecisions
    IN  /\ resp' = [op |-> "list_clients", isError |-> FALSE, error |-> "none",
                    clients |-> clients,
                    decisionCount |->
                        [name \in clients |-> Cardinality(DOMAIN clientDecisions[name])]]
        /\ UNCHANGED <<tasks, decisions, clientDecisions, clientWorkflows>>

\* The stage argument left out: undefined, falsy in `if (stage)` as '' is.
NoStage == ""

\* Variant: the Runtime decisions are listed with the Practice ones.
IsPractice_Any(d) == TRUE

\* d.category === 'Practice'
IsPractice(d) == d.category = "Practice"

\* The decisions get_unanswered_decisions lists, in library order.
UnansweredDecisions(lib, answered, stage) ==
    LET answeredIds == DOMAIN answered
        keep(d) == /\ IsPractice(d)
                   /\ (stage # NoStage => d.stage = stage)
                   /\ d.id \notin answeredIds
    IN  FilterSeq(keep, lib)

get_unanswered_decisions(client_name, stage) ==
    LET answered == AnswersOf(clientDecisions, client_name)
        id(d) == d.id
    IN  /\ resp' = [op |-> "get_unanswered_decisions", client |-> client_name,
                    stage |-> stage, isError |-> FALSE, error |-> "none",
                    unanswered |-> MapSeq(id, UnansweredDecisions(decisions, answered, stage))]
        /\ UNCHANGED <<tasks, decisions, clientDecisions, clientWorkflows>>

get_saved_workflow(client_name) ==
    /\ resp' = IF client_name \in DOMAIN clientWorkflows
               THEN [op |-> "get_saved_workflow", client |-> client_name,
                     isError |-> FALSE, error |-> "none",
                     workflow |-> clientWorkflows[client_name]]
               ELSE [op |-> "get_saved_workflow", client |-> client_name,
                     isError |-> TRUE, error |-> "NoWorkflow"]
    /\ UNCHANGED <<tasks, decisions, clientDecisions, clientWorkflows>>

\* The exports (index.ts 1187-1326).

MaxClock == 1500

Png == <<"p", "n", "g">>

\* new Date().toISOString().replace(/[:.]/g, '-').slice(0, -5): the slice
\* drops the milliseconds, the stamp is the clock's whole second.
Timestamp(ms) == ms \div 1000

\* workflow.stage.replace(/\s+/g, '-'), on the stage names of the model.
Dashed(stage) ==
    CASE stage = "Material Allocation" -> "Material-Allocation"
      [] stage = "Weighing & Dispensing" -> "Weighing-&-Dispensing"
      [] stage = "Pre-Dispensing" -> "Pre-Dispensing"
      [] stage = "Post-Dispensing" -> "Post-Dispensing"
      [] stage = "Labeling & Documentation" -> "Labeling-&-Documentation"
      [] OTHER -> stage

\* `workflow_${stage}_${timestamp}.${exportFormat}`
Filename(stage, ms, exportFormat) ==
    [stage |-> Dashed(stage), timestamp |-> Timestamp(ms), ext |-> exportFormat]

\* exports/<client>, as ensureClientExportDir leaves it (index.ts 137-144).
ClientDir(files, client) == IF client \in DOMAIN files THEN files[client] ELSE EmptyMap

\* Whether export_workflow reaches fs.writeFile (index.ts 1223-1233).
ExportWrites(dir, filename, ok) == ok

\* ok is response.ok of the fetch from mermaid.ink.
export_workflow(client_name, format, ok) ==
    LET exportFormat == IF Truthy(format) THEN format ELSE Png
    IN  IF client_name \notin DOMAIN clientWorkflows
        THEN /\ resp' = [op |-> "export_workflow", client |-> client_name,
                         isError |-> TRUE, error |-> "NoWorkflow"]
             /\ UNCHANGED <<tasks, decisions, clientDecisions, clientWorkflows,
                            exportFiles, clock>>
        ELSE LET workflow == clientWorkflows[client_name]
                 clientDir == ClientDir(exportFiles, client_name)
                 filename == Filename(workflow.stage, clock, exportFormat)
                 buffer == [mermaid_code |-> workflow.mermaid_code]
                 writes == ExportWrites(clientDir, filename, ok)
             IN  /\ exportFiles' =
                        (client_name :> (IF writes THEN (filename :> buffer) @@ clientDir
                                         ELSE clientDir)) @@ exportFiles
                 /\ resp' = [op |-> "export_workflow", client |-> client_name,
                             isError |-> ~writes,
                             error |-> IF writes THEN "none" ELSE "Export",
                             filename |-> filename, version |-> workflow.version]
                 /\ UNCHANGED <<tasks, decisions, clientDecisions, clientWorkflows, clock>>

list_exports(client_name) ==
    /\ resp' = IF client_name \notin DOMAIN exportFiles
               THEN [op |-> "list_exports", client |-> client_name,
                     isError |-> FALSE, error |-> "none", found |-> FALSE, files |-> {}]
               ELSE [op |-> "list_exports", client |-> client_name,
                     isError |-> FALSE, error |-> "none", found |-> TRUE,
                     files |-> {f \in DOMAIN exportFiles[client_name] : f.ext = Png}]
    /\ UNCHANGED <<tasks, decisions, clientDecisions, clientWorkflows, exportFiles, clock>>

----------------------------------------------------------------------------
(* The libraries and the calls of the model *)

Task(id, name, type, stage, predecessors, edge_type, guard_condition, decision_id, decision_outcome, loop_exit_condition) ==
    [id |-> id, name |-> name, type |-> type, stage |-> stage,
     predecessors |-> predecessors, edge_type |-> edge_type,
     guard_condition |-> guard_condition, decision_id |-> decision_id,
     decision_outcome |-> decision_outcome,
     loop_exit_condition |-> loop_exit_condition]

Decision(id, category, outcomes, stage) ==
    [id |-> id, category |-> category, outcomes |-> outcomes, stage |-> stage]

C_TOL_01 == <<"C", "-", "T", "O", "L", "-", "0", "1">>
Q_NONE_99 == <<"Q", "-", "N", "O", "N", "E", "-", "9", "9">>
DISP_001 == <<"D", "I", "S", "P", "-", "0", "0", "1">>
DISP_014 == <<"D", "I", "S", "P", "-", "0", "1", "4">>
DISP_L_011 == <<"D", "I", "S", "P", "-", "L", "-", "0", "1", "1">>
DISP_020 == <<"D", "I", "S", "P", "-", "0", "2", "0">>
Yes == <<"Y", "e", "s">>
No == <<"N", "o">>
Bogus == <<"N", "o", "t", "-", "A", "-", "R", "e", "a", "l">>
SealedOrBoth == SealedOnly \o <<",", " ">> \o BothPaths
WeighingOrBoth == WeighingOnly \o <<",", " ">> \o BothPaths
OutOfTolerance == <<"o", "u", "t", " ", "o", "f", " ", "t", "o", "l">>
AllSealed == <<"a", "l", "l", " ", "d", "o", "n", "e">>

\* The decision library of the dispensing domain (README.md 275-322).
DecisionLibrary ==
    << Decision(Q_ERP_01, "Practice", <<SAP, MES>>, "Material Allocation"),
       Decision(Q_SEC_01, "Practice", <<WeighingOnly, SealedOnly, BothPaths>>,
                "Weighing & Dispensing"),
       Decision(C_TOL_01, "Runtime", <<Yes, No>>, "Weighing & Dispensing") >>

\* A dispensing library after README.md: allocation, then the junction
\* DISP-017 and the sealed and the weighing loop, then the hand-over.
DispensingLibrary ==
    << Task(DISP_001, <<"r">>, "Macro", "Pre-Dispensing", <<>>,
            "normal", <<>>, Null, Null, <<>>),
       Task(DISP_014, <<"s">>, "Micro", "Material Allocation", <<DISP_001>>,
            "normal", <<>>, Q_ERP_01, SAP, <<>>),
       Task(DISP_017, <<"j">>, "Micro", "Weighing & Dispensing", <<DISP_014>>,
            "normal", <<>>, Null, Null, <<>>),
       Task(DISP_SL_001, <<"a">>, "Loop-Start", "Weighing & Dispensing",
            <<DISP_017>>, "normal", <<>>, Q_SEC_01, SealedOrBoth, <<>>),
       Task(DISP_SL_006, <<"z">>, "Loop-End", "Weighing & Dispensing",
            <<DISP_SL_001>>, "normal", <<>>, Q_SEC_01, SealedOrBoth, AllSealed),
       Task(DISP_L_001, <<"b">>, "Loop-Start", "Weighing & Dispensing",
            <<DISP_017>>, "normal", <<>>, Q_SEC_01, WeighingOrBoth, <<>>),
       Task(DISP_L_011, <<"x">>, "Micro", "Weighing & Dispensing",
            <<DISP_L_001>>, "exception", OutOfTolerance, C_TOL_01, No, <<>>),
       Task(DISP_L_002, <<"y">>, "Loop-End", "Weighing & Dispensing",
            <<DISP_L_001>>, "normal", <<>>, Q_SEC_01, WeighingOrBoth,
            RunningTotalPattern),
       Task(DISP_020, <<"m">>, "Micro", "Post-Dispensing",
            <<DISP_L_002, DISP_SL_006>>, "normal", <<>>, Null, Null, <<>>) >>

Clients == {"acme"}
StageArgs == {"All", "Weighing & Dispensing"}
SaveIds == {Q_ERP_01, Q_SEC_01, C_TOL_01, Q_NONE_99}
SaveOutcomes == {SAP, WeighingOnly, BothPaths, Yes, Bogus}
Rationales == {Undefined}

Init ==
    /\ tasks = DispensingLibrary
    /\ decisions = DecisionLibrary
    /\ clientDecisions = EmptyMap
    /\ clientWorkflows = EmptyMap
    /\ resp = [op |-> "none", isError |-> FALSE, error |-> "none"]
    /\ RestInit

SaveClientDecision ==
    \E c \in Clients, d \in SaveIds, o \in SaveOutcomes, r \in Rationales :
        save_client_decision(c, d, o, r) /\ UNCHANGED aside

ValidateWorkflow ==
    \E c \in Clients, st \in StageArgs : validate_workflow(c, st) /\ UNCHANGED aside

GenerateWorkflow ==
    \E c \in Clients, st \in StageArgs : generate_workflow(c, st) /\ UNCHANGED aside

Next == SaveClientDecision \/ ValidateWorkflow \/ GenerateWorkflow

Spec == Init /\ [][Next]_vars

----------------------------------------------------------------------------
(* The inclusion filter on its own: one task, one answer map. *)

MaxOutcomeLen == 4
MaxChoiceLen == 2

OutcomeAlphabet == {"A", "B", " ", ","}
ChoiceAlphabet == {"A", "B", " "}
Q_1 == <<"Q", "-", "1">>
C_1 == <<"C", "-", "1">>
C_only == <<"C">>
FilterGateIds == {Null, <<>>, Q_1, C_1, C_only}
FilterOutcomes == SeqsUpTo(OutcomeAlphabet, MaxOutcomeLen) \cup {Null}
FilterChoices == SeqsUpTo(ChoiceAlphabet, MaxChoiceLen)
FilterAnswerMaps ==
    {EmptyMap}
    \cup { (id :> [selected_outcome |-> o, rationale |-> <<>>]) :
               id \in {Q_1, C_1}, o \in FilterChoices }
T_1 == <<"T", "-", "1">>

InitFilter ==
    /\ \E id \in FilterGateIds, o \in FilterOutcomes :
           tasks = << Task(T_1, <<"t">>, "Micro", "Pre-Dispensing", <<>>, "normal",
                           <<>>, id, o, <<>>) >>
    /\ decisions = <<>>
    /\ \E m \in FilterAnswerMaps :
           clientDecisions = IF m = EmptyMap THEN EmptyMap ELSE ("acme" :> m)
    /\ clientWorkflows = EmptyMap
    /\ resp = [op |-> "none", isError |-> FALSE, error |-> "none"]
    /\ RestInit

\* One call of shouldIncludeTask on the task and the client's answers.
IncludeCall ==
    /\ resp.op = "none"
    /\ resp' = [op |-> "shouldIncludeTask", isError |-> FALSE, error |-> "none",
                task |-> tasks[1],
                answers |-> AnswersOf(clientDecisions, "acme"),
                result |-> shouldIncludeTask(tasks[1],
                                             AnswersOf(clientDecisions, "acme"))]
    /\ UNCHANGED <<tasks, decisions, clientDecisions, clientWorkflows>>
    /\ UNCHANGED aside

NextFilter == IncludeCall

SpecFilter == InitFilter /\ [][NextFilter]_vars

----------------------------------------------------------------------------
(* The ancestor search on its own: a library over three ids, the third of  *)
(* which may name no task, and any set of included ids.                    *)

MaxPreds == 2

Id_a == <<"a">>
Id_b == <<"b">>
Id_c == <<"c">>
AncestorIds == {Id_a, Id_b, Id_c}
PredLists == SeqsUpTo(AncestorIds, MaxPreds)
Plain(id, preds) ==
    Task(id, <<"t">>, "Micro", "Pre-Dispensing", preds, "normal", <<>>, Null, Null, <<>>)

InitAncestor ==
    /\ \E pa \in PredLists, pb \in PredLists :
           \/ tasks = << Plain(Id_a, pa), Plain(Id_b, pb) >>
           \/ \E pc \in PredLists :
                  tasks = << Plain(Id_a, pa), Plain(Id_b, pb), Plain(Id_c, pc) >>
    /\ decisions = <<>>
    /\ clientDecisions = EmptyMap
    /\ clientWorkflows = EmptyMap
    /\ \E inc \in SUBSET AncestorIds :
           resp = [op |-> "none", isError |-> FALSE, error |-> "none",
                   includedTaskIds |-> inc]
    /\ RestInit

\* One call of findClosestIncludedAncestor on the first task of the library.
AncestorCall ==
    /\ resp.op = "none"
    /\ resp' = [op |-> "findClosestIncludedAncestor", isError |-> FALSE,
                error |-> "none", task |-> tasks[1],
                includedTaskIds |-> resp.includedTaskIds,
                result |-> findClosestIncludedAncestor(tasks[1], tasks,
                                                       resp.includedTaskIds)]
    /\ UNCHANGED <<tasks, decisions, clientDecisions, clientWorkflows>>
    /\ UNCHANGED aside

NextAncestor == AncestorCall

SpecAncestor == InitAncestor /\ [][NextAncestor]_vars

----------------------------------------------------------------------------
(* The compiler and the validator on a family of libraries: a chain        *)
(* A -> P -> T whose ids, types, gates, guards, stages and predecessor     *)
(* lists vary, a library whose junction task is gated, and the dispensing  *)
(* library; the answer store holds any of the listed valid answer maps.    *)

Allocation == "Material Allocation"
Weighing == "Weighing & Dispensing"

Answer(outcome) == [selected_outcome |-> outcome, rationale |-> <<>>]

GraphAnswerMaps ==
    { EmptyMap,
      (Q_SEC_01 :> Answer(WeighingOnly)),
      (Q_SEC_01 :> Answer(SealedOnly)),
      (Q_SEC_01 :> Answer(BothPaths)),
      (Q_SEC_01 :> Answer(BothPaths)) @@ (Q_ERP_01 :> Answer(SAP)),
      (Q_ERP_01 :> Answer(SAP)) }

\* The head of the chain: the junction task in either stage, or another task.
ChainHeads ==
    { Task(DISP_017, <<"j">>, "Micro", Allocation, <<>>, "normal", <<>>, Null, Null, <<>>),
      Task(DISP_017, <<"j">>, "Micro", Weighing, <<>>, "normal", <<>>, Null, Null, <<>>),
      Task(DISP_001, <<"r">>, "Macro", Weighing, <<>>, "normal", <<>>, Null, Null, <<>>) }

\* The middle of the chain: ungated, or gated by the ERP decision.
ChainMiddles(head) ==
    { Task(k[1], <<"p">>, k[2], Weighing, <<head.id>>, "normal", <<>>, g[1], g[2], <<>>) :
        k \in { kk \in { <<DISP_L_001, "Loop-Start">>, <<DISP_014, "Micro">>,
                         <<DISP_017, "Micro">> } : kk[1] # head.id },
        g \in { <<Null, Null>>, <<Q_ERP_01, SAP>> } }

\* The end of the chain: a mapped or an unmapped loop end, an entry task or a
\* plain task; ungated, guarded by a runtime condition, or gated by Q-SEC-01.
ChainEnds(head, middle) ==
    { Task(k[1], <<"t">>, k[2], Weighing, preds, g[1], g[2], g[3], g[4], k[3]) :
        k \in { <<DISP_L_002, "Loop-End", RunningTotalPattern>>,
                <<DISP_L_011, "Loop-End", AllSealed>>,
                <<DISP_SL_001, "Loop-Start", <<>> >>,
                <<DISP_020, "Micro", <<>> >> },
        g \in { <<"normal", <<>>, Null, Null>>,
                <<"exception", OutOfTolerance, C_TOL_01, No>>,
                <<"normal", <<>>, Q_SEC_01, SealedOrBoth>> },
        preds \in { <<middle.id>>, <<head.id>>, <<middle.id, head.id>> } }

ChainLibraries ==
    UNION { UNION { { <<a, p, t>> : t \in ChainEnds(a, p) } : p \in ChainMiddles(a) } :
            a \in ChainHeads }

\* The junction task gated by the ERP decision, both entry tasks after it.
GatedJunctionLibrary ==
    << Task(DISP_001, <<"r">>, "Macro", "Pre-Dispensing", <<>>,
            "normal", <<>>, Null, Null, <<>>),
       Task(DISP_017, <<"j">>, "Micro", Weighing, <<DISP_001>>,
            "normal", <<>>, Q_ERP_01, SAP, <<>>),
       Task(DISP_SL_001, <<"a">>, "Loop-Start", Weighing, <<DISP_017>>,
            "normal", <<>>, Q_SEC_01, SealedOrBoth, <<>>),
       Task(DISP_L_001, <<"b">>, "Loop-Start", Weighing, <<DISP_017>>,
            "normal", <<>>, Q_SEC_01, WeighingOrBoth, <<>>) >>

\* A task of a stage that stageOrder does not list, after one that it lists.
OffStageLibrary ==
    << Task(DISP_001, <<"r">>, "Macro", "Pre-Dispensing", <<>>,
            "normal", <<>>, Null, Null, <<>>),
       Task(DISP_014, <<"s">>, "Micro", "Granulation", <<DISP_001>>,
            "normal", <<>>, Null, Null, <<>>) >>

\* A task whose name holds the letters "end", and a task after it in its stage.
SendNameLibrary ==
    << Task(DISP_001, <<"S", "e", "n", "d">>, "Macro", Weighing, <<>>,
            "normal", <<>>, Null, Null, <<>>),
       Task(DISP_014, <<"s">>, "Micro", Weighing, <<DISP_001>>,
            "normal", <<>>, Null, Null, <<>>) >>

\* Two tasks guarded by the same runtime decision, after a common predecessor.
SharedGuardLibrary ==
    << Task(DISP_001, <<"r">>, "Macro", Weighing, <<>>,
            "normal", <<>>, Null, Null, <<>>),
       Task(DISP_014, <<"u">>, "Micro", Weighing, <<DISP_001>>,
            "normal", OutOfTolerance, C_TOL_01, Yes, <<>>),
       Task(DISP_020, <<"v">>, "Micro", Weighing, <<DISP_001>>,
            "exception", OutOfTolerance, C_TOL_01, No, <<>>) >>

\* A loop end outside the pairing table, with a task after it.
UnmappedLoopLibrary ==
    << Task(DISP_001, <<"r">>, "Macro", Weighing, <<>>,
            "normal", <<>>, Null, Null, <<>>),
       Task(DISP_L_011, <<"x">>, "Loop-End", Weighing, <<DISP_001>>,
            "normal", <<>>, Null, Null, AllSealed),
       Task(DISP_020, <<"m">>, "Micro", Weighing, <<DISP_L_011>>,
            "normal", <<>>, Null, Null, <<>>) >>

GraphLibraries ==
    ChainLibraries
        \cup {GatedJunctionLibrary, DispensingLibrary, OffStageLibrary, SendNameLibrary,
              SharedGuardLibrary, UnmappedLoopLibrary}

InitGraph ==
    /\ tasks \in GraphLibraries
    /\ decisions = DecisionLibrary
    /\ \E m \in GraphAnswerMaps :
           clientDecisions = IF m = EmptyMap THEN EmptyMap ELSE ("acme" :> m)
    /\ clientWorkflows = EmptyMap
    /\ resp = [op |-> "none", isError |-> FALSE, error |-> "none"]
    /\ RestInit

\* The plain compiler applied to what generate_workflow hands to it
\* (index.ts 1039-1065): the client's answers and the filtered library.
CompileCall ==
    \E c \in Clients, st \in StageArgs :
        LET answers == AnswersOf(clientDecisions, c)
            filteredTasks == FilterTasks(tasks, answers, st)
        IN  /\ resp' = [op |-> "generateMermaidDiagram", client |-> c, stage |-> st,
                        isError |-> FALSE, error |-> "none",
                        filteredTasks |-> filteredTasks,
                        lines |-> generateMermaidDiagram(filteredTasks, tasks, answers)]
            /\ UNCHANGED <<tasks, decisions, clientDecisions, clientWorkflows>>
            /\ UNCHANGED aside

\* The annotated compiler called on the filtered tasks, as generate_workflow
\* calls it (index.ts 1057-1065).
AnnotateCall ==
    \E c \in Clients, st \in StageArgs :
        LET answers == AnswersOf(clientDecisions, c)
            filteredTasks == FilterTasks(tasks, answers, st)
        IN  /\ resp' = [op |-> "generateBeautifulMermaidDiagram", client |-> c,
                        stage |-> st, isError |-> FALSE, error |-> "none",
                        filteredTasks |-> filteredTasks,
                        lines |-> generateBeautifulMermaidDiagram(
                                      filteredTasks, tasks, answers, c)]
            /\ UNCHANGED <<tasks, decisions, clientDecisions, clientWorkflows>>
            /\ UNCHANGED aside

NextGraph == CompileCall \/ ValidateWorkflow \/ AnnotateCall

SpecGraph == InitGraph /\ [][NextGraph]_vars

----------------------------------------------------------------------------
(* The tools called one at a time, over both stores and the exports
   directory. *)

StoreSaveOutcomes == {SAP, MES, WeighingOnly}
UnansweredStages == {NoStage, "All", Weighing}
ExportFormats == {Undefined}

InitStore ==
    /\ tasks = GatedJunctionLibrary
    /\ decisions = DecisionLibrary
    /\ clientDecisions = EmptyMap
    /\ clientWorkflows = EmptyMap
    /\ resp = [op |-> "none", isError |-> FALSE, error |-> "none"]
    /\ RestInit

StoreSave ==
    \E c \in Clients, d \in SaveIds, o \in StoreSaveOutcomes, r \in Rationales :
        save_client_decision(c, d, o, r) /\ UNCHANGED aside

GetClientDecisions == \E c \in Clients : get_client_decisions(c) /\ UNCHANGED aside

ListClients == list_clients /\ UNCHANGED aside

GetUnansweredDecisions ==
    \E c \in Clients, st \in UnansweredStages :
        get_unanswered_decisions(c, st) /\ UNCHANGED aside

GetSavedWorkflow == \E c \in Clients : get_saved_workflow(c) /\ UNCHANGED aside

ExportWorkflow ==
    \E c \in Clients, f \in ExportFormats, ok \in BOOLEAN :
        export_workflow(c, f, ok) /\ UNCHANGED saveCalls

ListExports == \E c \in Clients : list_exports(c) /\ UNCHANGED saveCalls

\* Half a second passes.
Tick ==
    /\ clock + 500 <= MaxClock
    /\ clock' = clock + 500
    /\ UNCHANGED <<tasks, decisions, clientDecisions, clientWorkflows, resp,
                   exportFiles, saveCalls>>

NextStore ==
    \/ StoreSave
    \/ GetClientDecisions
    \/ ListClients
    \/ GetUnansweredDecisions
    \/ ValidateWorkflow
    \/ GenerateWorkflow
    \/ GetSavedWorkflow
    \/ ExportWorkflow
    \/ ListExports

SpecStore == InitStore /\ [][NextStore]_vars

\* The exports while the clock runs: generate, export, list, and time passing.
NextExport ==
    \/ StoreSave
    \/ GenerateWorkflow
    \/ ExportWorkflow
    \/ ListExports
    \/ Tick

SpecExport == InitStore /\ [][NextExport]_vars

----------------------------------------------------------------------------
(* save_client_decision calls in flight together. The handler is an async
   function: between its awaits (loadDecisions, loadClientDecisions,
   saveClientDecisions) the steps of other calls run. *)

MaxCalls == 2

ConcurrentClients == {"acme", "bolt"}
ConcurrentIds == {Q_ERP_01, Q_SEC_01, Q_NONE_99}
ConcurrentOutcomes == {SAP, WeighingOnly}

InitConcurrent ==
    /\ tasks = GatedJunctionLibrary
    /\ decisions = DecisionLibrary
    /\ clientDecisions = EmptyMap
    /\ clientWorkflows = EmptyMap
    /\ resp = [op |-> "none", isError |-> FALSE, error |-> "none"]
    /\ RestInit

\* Variant: the write merges the answer into the store as it is at the write.
WrittenStore_Merged(loaded, current, call, answer) ==
    (call.client :> WithAnswer(AnswersOf(current, call.client), call.decision_id, answer))
        @@ current

\* What saveClientDecisions writes: the copy the call loaded, with its answer.
WrittenStore(loaded, current, call, answer) ==
    (call.client :> WithAnswer(AnswersOf(loaded, call.client), call.decision_id, answer))
        @@ loaded

\* The request arrives: the handler runs up to `await loadDecisions()`.
CallSave ==
    \E c \in ConcurrentClients, d \in ConcurrentIds, o \in ConcurrentOutcomes :
        /\ Len(saveCalls) < MaxCalls
        /\ saveCalls' = Append(saveCalls,
                               [pc |-> "loadDecisions", client |-> c, decision_id |-> d,
                                selected_outcome |-> o, loaded |-> EmptyMap,
                                isError |-> FALSE])
        /\ UNCHANGED <<tasks, decisions, clientDecisions, clientWorkflows, resp,
                       exportFiles, clock>>

\* loadDecisions resolves: the two checks, up to `await loadClientDecisions()`.
CheckStep ==
    \E k \in DOMAIN saveCalls :
        LET call == saveCalls[k]
            found == HasDecision(decisions, call.decision_id)
            valid == found /\ call.selected_outcome
                                  \in Range(FindDecision(decisions, call.decision_id).outcomes)
        IN  /\ call.pc = "loadDecisions"
            /\ IF SaveWrites(found, valid)
               THEN /\ saveCalls' = [saveCalls EXCEPT ![k].pc = "loadClientDecisions"]
                    /\ UNCHANGED resp
               ELSE /\ saveCalls' = [saveCalls EXCEPT ![k].pc = "done", ![k].isError = TRUE]
                    /\ resp' = [op |-> "save_client_decision", client |-> call.client,
                                decision_id |-> call.decision_id,
                                selected_outcome |-> call.selected_outcome,
                                isError |-> TRUE,
                                error |-> IF ~found THEN "NotFound" ELSE "InvalidOutcome",
                                validOptions |->
                                    IF found
                                    THEN FindDecision(decisions, call.decision_id).outcomes
                                    ELSE <<>>]
            /\ UNCHANGED <<tasks, decisions, clientDecisions, clientWorkflows,
                           exportFiles, clock>>

\* loadClientDecisions resolves: the call holds its own copy of the store,
\* sets its answer in it, up to `await saveClientDecisions(clientDecisions)`.
LoadStep ==
    \E k \in DOMAIN saveCalls :
        /\ saveCalls[k].pc = "loadClientDecisions"
        /\ saveCalls' = [saveCalls EXCEPT ![k].pc = "saveClientDecisions",
                                          ![k].loaded = clientDecisions]
        /\ UNCHANGED <<tasks, decisions, clientDecisions, clientWorkflows, resp,
                       exportFiles, clock>>

\* saveClientDecisions resolves: the file holds the call's copy; the call
\* returns its success.
WriteStep ==
    \E k \in DOMAIN saveCalls :
        LET call == saveCalls[k]
            answer == [selected_outcome |-> call.selected_outcome, rationale |-> <<>>]
        IN  /\ call.pc = "saveClientDecisions"
            /\ clientDecisions' = WrittenStore(call.loaded, clientDecisions, call, answer)
            /\ saveCalls' = [saveCalls EXCEPT ![k].pc = "done"]
            /\ resp' = [op |-> "save_client_decision", client |-> call.client,
                        decision_id |-> call.decision_id,
                        selected_outcome |-> call.selected_outcome,
                        isError |-> FALSE, error |-> "none", validOptions |-> <<>>]
            /\ UNCHANGED <<tasks, decisions, clientWorkflows, exportFiles, clock>>

NextConcurrent == CallSave \/ CheckStep \/ LoadStep \/ WriteStep

SpecConcurrent == InitConcurrent /\ [][NextConcurrent]_vars

----------------------------------------------------------------------------
(* Properties of the inclusion filter (checked under SpecFilter) *)

FilterCalled == resp.op = "shouldIncludeTask"

HasRuntimePrefix(id) ==
    /\ id # Null
    /\ Len(id) >= 2
    /\ id[1] = "C"
    /\ id[2] = "-"

\* C1: a task whose gating decision id begins with 'C-' is included under
\* every answer map: the empty map, maps that answer another decision, and
\* maps that answer that same id with any outcome.
C1_RuntimeGateAlwaysIncluded ==
    (FilterCalled /\ HasRuntimePrefix(resp.task.decision_id)) => resp.result = TRUE

\* The runtime id is answered with an outcome other than the required one,
\* and the task is included all the same.
C1_Witness ==
    /\ FilterCalled
    /\ resp.task.decision_id = C_1
    /\ resp.task.decision_outcome = <<"A">>
    /\ C_1 \in DOMAIN resp.answers
    /\ resp.answers[C_1].selected_outcome = <<"B">>
    /\ resp.result = TRUE

\* C2: a task with no gating decision id (null or the empty string) is
\* included under every answer map.
C2_UngatedAlwaysIncluded ==
    (FilterCalled /\ resp.task.decision_id \in {Null, <<>>}) => resp.result = TRUE

\* An ungated task that names a required outcome, under a non-empty answer map.
C2_Witness ==
    /\ FilterCalled
    /\ resp.task.decision_id = <<>>
    /\ resp.task.decision_outcome = <<"A">>
    /\ resp.answers # EmptyMap
    /\ resp.result = TRUE

\* The task is gated by the practice decision Q-1 and the client answered it.
AnsweredPracticeGate ==
    /\ FilterCalled
    /\ resp.task.decision_id = Q_1
    /\ Q_1 \in DOMAIN resp.answers

A_or_B == <<"A", ",", " ", "B">>

\* C4 as stated: with the required outcome "A, B", the task is included iff
\* the client's selected outcome, trimmed, equals "A" or "B".
C4_SelectedOutcomeTrimmed ==
    (AnsweredPracticeGate /\ resp.task.decision_outcome = A_or_B)
        => (resp.result = TRUE
              <=> Trim(resp.answers[Q_1].selected_outcome) \in {<<"A">>, <<"B">>})

\* C4 amended: with a required outcome that holds a comma, the task is
\* included iff the selected outcome is non-empty and equals, as stored and
\* without being trimmed, one of the trimmed comma-separated candidates.
C4_CandidatesTrimmedOnly ==
    (AnsweredPracticeGate
       /\ resp.task.decision_outcome # Null
       /\ \E i \in DOMAIN resp.task.decision_outcome : resp.task.decision_outcome[i] = ",")
        => LET selected == resp.answers[Q_1].selected_outcome
               candidates == Range(MapSeq(Trim, Split(resp.task.decision_outcome, ",")))
           IN  resp.result = TRUE <=> (selected # <<>> /\ selected \in candidates)

\* The second candidate of "A, B" is matched only once its leading space is
\* trimmed away.
C4_Witness ==
    /\ AnsweredPracticeGate
    /\ resp.task.decision_outcome = A_or_B
    /\ resp.answers[Q_1].selected_outcome = <<"B">>
    /\ resp.result = TRUE

----------------------------------------------------------------------------
(* Properties of the ancestor search (checked under SpecAncestor) *)

AncestorCalled == resp.op = "findClosestIncludedAncestor"

\* The declared predecessors of an id; none when the id names no task.
DeclaredPreds(id) ==
    UNION { Range(tasks[i].predecessors) : i \in {j \in DOMAIN tasks : tasks[j].id = id} }

\* The least set that holds S and the declared predecessors of its members.
RECURSIVE PredClosure(_)
PredClosure(S) ==
    LET more == S \cup UNION { DeclaredPreds(id) : id \in S }
    IN  IF more = S THEN S ELSE PredClosure(more)

\* The ids reachable from the task by one or more predecessor steps.
AncestorsOf(task) == PredClosure(Range(task.predecessors))

\* C5: findClosestIncludedAncestor returns only members of includedIds, and
\* returns null iff no member of includedIds is reachable from the task by
\* one or more predecessor steps (cycles and dangling ids included).
C5_AncestorIncludedOrNull ==
    AncestorCalled =>
        /\ resp.result # Null => resp.result \in resp.includedTaskIds
        /\ resp.result = Null <=> AncestorsOf(resp.task) \cap resp.includedTaskIds = {}

\* The task's first predecessor names no task, its second leads back to the
\* task itself, the only included id, which the search returns.
C5_Witness ==
    /\ AncestorCalled
    /\ Len(tasks) = 2
    /\ resp.task.predecessors = <<Id_c, Id_b>>
    /\ tasks[2].predecessors = <<Id_a, Id_a>>
    /\ resp.includedTaskIds = {Id_a}
    /\ resp.result = Id_a

----------------------------------------------------------------------------
(* Properties of the handlers (checked under Spec) *)

ValidateCalled == resp.op = "validate_workflow"
GenerateCalled == resp.op = "generate_workflow"
SaveCalled == resp.op = "save_client_decision"

\* The task is gated by a decision that is not a runtime condition.
PracticeGated(task) ==
    /\ task.decision_id \notin {Null, <<>>}
    /\ ~HasRuntimePrefix(task.decision_id)

\* C3: a task gated by a practice decision that the client has not answered
\* is outside the included set of every validate call and of every compile
\* that generate_workflow carries out; validate never fails, and generate
\* fails only when the client has no answer at all, never because one
\* decision is unanswered.
C3_UnansweredGateExcluded ==
    LET answers == AnswersOf(clientDecisions, resp.client)
    IN  /\ ValidateCalled => ~resp.isError
        /\ (GenerateCalled /\ resp.isError) => DOMAIN answers = {}
        /\ ((ValidateCalled \/ GenerateCalled) /\ ~resp.isError) =>
               \A i \in DOMAIN tasks :
                   (PracticeGated(tasks[i]) /\ tasks[i].decision_id \notin DOMAIN answers)
                       => tasks[i].id \notin IdsOf(resp.filteredTasks)

\* Q-SEC-01 is answered and Q-ERP-01 is not: the generation succeeds, the
\* weighing loop is in and the task gated by Q-ERP-01 is out.
C3_Witness ==
    /\ GenerateCalled
    /\ ~resp.isError
    /\ Q_ERP_01 \notin DOMAIN AnswersOf(clientDecisions, resp.client)
    /\ DISP_L_001 \in IdsOf(resp.filteredTasks)
    /\ DISP_014 \notin IdsOf(resp.filteredTasks)

NodesOf(code) == {l \in Range(code) : l.kind \in {"node", "decision", "presentation"}}
EdgesOf(code) == {l \in Range(code) : l.kind = "edge"}

C10_FailedSaveLeavesStore ==
    [][ resp'.op = "save_client_decision" =>
          LET known == \E i \in DOMAIN decisions : decisions[i].id = resp'.decision_id
              allowed == UNION { Range(decisions[i].outcomes) :
                                   i \in {j \in DOMAIN decisions :
                                            decisions[j].id = resp'.decision_id} }
          IN  /\ ~known => (resp'.isError /\ resp'.error = "NotFound")
              /\ (known /\ resp'.selected_outcome \notin allowed)
                    => /\ resp'.isError
                       /\ resp'.error = "InvalidOutcome"
                       /\ Range(resp'.validOptions) = allowed
              /\ (known /\ resp'.selected_outcome \in allowed) => ~resp'.isError
              /\ resp'.isError => clientDecisions' = clientDecisions ]_vars

\* An answer is already stored when a save with an outcome the decision does
\* not allow is refused.
C10_Witness ==
    /\ SaveCalled
    /\ resp.error = "InvalidOutcome"
    /\ resp.decision_id = Q_SEC_01
    /\ resp.selected_outcome = Bogus
    /\ resp.validOptions = <<WeighingOnly, SealedOnly, BothPaths>>
    /\ Q_ERP_01 \in DOMAIN AnswersOf(clientDecisions, resp.client)

----------------------------------------------------------------------------
(* Properties of the compiler and the validator (checked under SpecGraph) *)

CompileCalled == resp.op = "generateMermaidDiagram"

HasEdge(from, to) ==
    \E l \in Range(resp.lines) : l.kind = "edge" /\ l.from = from /\ l.to = to

DecisionNodes == {l.id : l \in {d \in Range(resp.lines) : d.kind = "decision"}}

\* T's only declared predecessor is excluded, and that predecessor's only
\* declared predecessor is included.
SoleBridge(T, included) ==
    /\ Len(T.predecessors) = 1
    /\ T.predecessors[1] \notin included
    /\ HasTask(tasks, T.predecessors[1])
    /\ Len(FindTask(tasks, T.predecessors[1]).predecessors) = 1
    /\ FindTask(tasks, T.predecessors[1]).predecessors[1] \in included

BridgeAncestor(T) == FindTask(tasks, T.predecessors[1]).predecessors[1]

\* C7, in the reading most favourable to the program: for every included
\* task T whose only declared predecessor is excluded while that
\* predecessor's only declared predecessor A is included, the compiled
\* edges lead from A to T, directly or through one synthesized decision
\* node, and validate_workflow reports exactly one orphan-check issue about
\* T, the informational one that names A.
C7_BridgedToDistantAncestor ==
    LET included == IdsOf(resp.filteredTasks)
    IN  /\ CompileCalled =>
              \A i \in DOMAIN resp.filteredTasks :
                  LET T == resp.filteredTasks[i]
                  IN  SoleBridge(T, included) =>
                          \/ HasEdge(NodeId(BridgeAncestor(T)), NodeId(T.id))
                          \/ \E d \in DecisionNodes :
                                 /\ HasEdge(NodeId(BridgeAncestor(T)), d)
                                 /\ HasEdge(d, NodeId(T.id))
        /\ ValidateCalled =>
              \A i \in DOMAIN resp.filteredTasks :
                  LET T == resp.filteredTasks[i]
                      about == {k \in DOMAIN resp.issues :
                                    /\ resp.issues[k].check = "orphan"
                                    /\ resp.issues[k].task = T.id}
                  IN  SoleBridge(T, included) =>
                          /\ Cardinality(about) = 1
                          /\ \A k \in about :
                                 /\ resp.issues[k].level = "info"
                                 /\ resp.issues[k].other = BridgeAncestor(T)

\* C8, for a compile of the whole library that holds the junction task and
\* includes both entry tasks: when Q-SEC-01 is answered "Both
\* (material-dependent)" the compiled graph holds the routing decision node,
\* an edge from DISP-017 to it, a labeled edge from it to DISP-SL-001 and to
\* DISP-L-001, and no other edge into either entry task.
C8_BothPathsRouted ==
    ( /\ CompileCalled
      /\ resp.stage = "All"
      /\ SelectedOutcome(AnswersOf(clientDecisions, resp.client), Q_SEC_01) = BothPaths
      /\ HasTask(tasks, DISP_017)
      /\ {DISP_SL_001, DISP_L_001} \subseteq IdsOf(resp.filteredTasks) )
    => /\ DEC_C_SEC_01 \in DecisionNodes
       /\ HasEdge(NodeId(DISP_017), DEC_C_SEC_01)
       /\ \A entry \in {DISP_SL_001, DISP_L_001} :
              /\ \E l \in Range(resp.lines) :
                     /\ l.kind = "edge"
                     /\ l.from = DEC_C_SEC_01
                     /\ l.to = NodeId(entry)
                     /\ l.label # Null
              /\ \A l \in Range(resp.lines) :
                     (l.kind = "edge" /\ l.to = NodeId(entry)) => l.from = DEC_C_SEC_01

LoopWarningsAbout(id) ==
    {k \in DOMAIN resp.issues :
         resp.issues[k].check = "loop" /\ resp.issues[k].task = id}

\* C9: in every validate_workflow result there is exactly one loop warning
\* for each included Loop-End whose paired Loop-Start (findLoopStart) is not
\* included, none for a Loop-End whose paired start is included, and every
\* loop issue is a warning about an included Loop-End.
C9_OneWarningPerBrokenLoop ==
    ValidateCalled =>
        LET included == IdsOf(resp.filteredTasks)
        IN  /\ \A i \in DOMAIN resp.filteredTasks :
                   LET t == resp.filteredTasks[i]
                   IN  t.type = "Loop-End" =>
                           Cardinality(LoopWarningsAbout(t.id)) =
                               IF findLoopStart(t.id) \in included THEN 0 ELSE 1
            /\ \A k \in DOMAIN resp.issues :
                   resp.issues[k].check = "loop" =>
                       /\ resp.issues[k].level = "warning"
                       /\ \E i \in DOMAIN resp.filteredTasks :
                              /\ resp.filteredTasks[i].id = resp.issues[k].task
                              /\ resp.filteredTasks[i].type = "Loop-End"

\* DISP-L-002 is included, its paired start DISP-L-001 is not, and the
\* issue list holds the one loop warning that names both.
C9_Witness ==
    /\ ValidateCalled
    /\ DISP_L_002 \in IdsOf(resp.filteredTasks)
    /\ DISP_L_001 \notin IdsOf(resp.filteredTasks)
    /\ Cardinality(LoopWarningsAbout(DISP_L_002)) = 1
    /\ \E k \in DOMAIN resp.issues :
           resp.issues[k] = LoopWarning(DISP_L_002, DISP_L_001)

----------------------------------------------------------------------------
(* Properties of the stores under the tools called one at a time (checked
   under SpecStore) *)

Outcomes(id) == Range(FindDecision(decisions, id).outcomes)

\* C11: after any sequence of save_client_decision calls from an empty store,
\* every stored answer is an answer to a decision of the library, and its
\* selected_outcome is one of that decision's outcomes.
C11_StoredAnswersValid ==
    \A c \in DOMAIN clientDecisions : \A id \in DOMAIN clientDecisions[c] :
        /\ HasDecision(decisions, id)
        /\ clientDecisions[c][id].selected_outcome \in Outcomes(id)

\* Two answers are stored and the last save, of an outcome its decision does
\* not have, was refused.
C11_Witness ==
    /\ SaveCalled
    /\ resp.error = "InvalidOutcome"
    /\ Cardinality(DOMAIN AnswersOf(clientDecisions, resp.client)) = 2

AnswerIds(store, c) == DOMAIN AnswersOf(store, c)

----------------------------------------------------------------------------
(* Properties of the saves in flight together (checked under SpecConcurrent) *)

Succeeded(k) == saveCalls[k].pc = "done" /\ ~saveCalls[k].isError

\* Two calls for one client and two decision ids, each of which loaded the
\* store before the other had written its answer.
Raced(j, k) ==
    /\ j # k
    /\ saveCalls[j].client = saveCalls[k].client
    /\ saveCalls[j].decision_id # saveCalls[k].decision_id
    /\ saveCalls[k].decision_id \notin AnswerIds(saveCalls[j].loaded, saveCalls[j].client)
    /\ saveCalls[j].decision_id \notin AnswerIds(saveCalls[k].loaded, saveCalls[k].client)

\* C13: two save_client_decision calls in flight together, for the same
\* client and different decision ids, lose an update: when each has loaded
\* the store before the other wrote, both return success and, no third call
\* having written, the store holds the answer of one of them only.
C13_LostUpdate ==
    \A j, k \in DOMAIN saveCalls :
        (Succeeded(j) /\ Succeeded(k) /\ Raced(j, k)
            /\ \A n \in DOMAIN saveCalls \ {j, k} : ~Succeeded(n))
        => Cardinality({saveCalls[j].decision_id, saveCalls[k].decision_id}
                           \cap AnswerIds(clientDecisions, saveCalls[j].client)) = 1

\* Both calls have returned success, for the same client and for Q-ERP-01 and
\* Q-SEC-01, and the store holds one answer.
C13_Witness ==
    /\ Len(saveCalls) = 2
    /\ Succeeded(1) /\ Succeeded(2)
    /\ saveCalls[1].client = saveCalls[2].client
    /\ {saveCalls[1].decision_id, saveCalls[2].decision_id} = {Q_ERP_01, Q_SEC_01}
    /\ Cardinality(AnswerIds(clientDecisions, saveCalls[1].client)) = 1

----------------------------------------------------------------------------
(* Properties of generation and validation under the tools called one at a
   time (checked under SpecStore) *)

\* C14: generate_workflow for a client with no saved answer returns the
\* Unconfigured error and leaves the saved workflows, the version of every
\* client among them, as they were; with an answer saved it does not return
\* that error.
C14_UnconfiguredLeavesWorkflows ==
    [][ resp'.op = "generate_workflow" =>
          IF AnswerIds(clientDecisions, resp'.client) = {}
          THEN /\ resp'.isError
               /\ resp'.error = "Unconfigured"
               /\ clientWorkflows' = clientWorkflows
               /\ ExistingVersion(clientWorkflows', resp'.client)
                      = ExistingVersion(clientWorkflows, resp'.client)
          ELSE ~resp'.isError ]_vars

\* generate_workflow has answered Unconfigured: the client has no answer,
\* and no workflow is saved.
C14_Witness ==
    /\ GenerateCalled
    /\ resp.isError
    /\ resp.error = "Unconfigured"
    /\ AnswerIds(clientDecisions, resp.client) = {}
    /\ resp.client \notin DOMAIN clientWorkflows

UnansweredCalled == resp.op = "get_unanswered_decisions"

\* C15: get_unanswered_decisions lists exactly the decisions of category
\* Practice, of the given stage when a stage is given, that the client has no
\* stored answer for, each once: a decision is listed while no save for it
\* has succeeded and not once one has, and no Runtime decision is listed.
C15_UnansweredExact ==
    UnansweredCalled =>
        /\ Range(resp.unanswered)
             = { decisions[i].id : i \in
                   { j \in DOMAIN decisions :
                       /\ decisions[j].category = "Practice"
                       /\ resp.stage # NoStage => decisions[j].stage = resp.stage
                       /\ decisions[j].id \notin AnswerIds(clientDecisions, resp.client) } }
        /\ Cardinality(Range(resp.unanswered)) = Len(resp.unanswered)
        /\ \A i \in DOMAIN decisions :
               decisions[i].category = "Runtime"
                   => decisions[i].id \notin Range(resp.unanswered)

\* Asked without a stage once Q-ERP-01 is answered: Q-SEC-01 alone is listed,
\* the unanswered Runtime decision C-TOL-01 is not.
C15_Witness ==
    /\ UnansweredCalled
    /\ resp.stage = NoStage
    /\ AnswerIds(clientDecisions, resp.client) = {Q_ERP_01}
    /\ resp.unanswered = <<Q_SEC_01>>

SameCall(r, q) == r.client = q.client /\ r.stage = q.stage

SavedVersion(store, c) == IF c \in DOMAIN store THEN store[c].version ELSE 0

\* C18: every successful generate_workflow step raises the client's saved
\* version by exactly one, from no saved workflow to version 1, and every
\* other step of the tools, a refused generate_workflow among them, leaves
\* it as it is: the version counts the client's successful generations.
C18_VersionCountsGenerations ==
    [][ \A c \in Clients :
          SavedVersion(clientWorkflows', c)
              = SavedVersion(clientWorkflows, c)
                    + (IF resp'.op = "generate_workflow" /\ ~resp'.isError
                          /\ resp'.client = c
                       THEN 1 ELSE 0) ]_vars

\* Version 2 is saved by the second successful generation, and an export of
\* version 1 is on disk from between the two.
C18_Witness ==
    /\ GenerateCalled
    /\ ~resp.isError
    /\ SavedVersion(clientWorkflows, resp.client) = 2
    /\ resp.client \in DOMAIN exportFiles
    /\ exportFiles[resp.client] # EmptyMap

----------------------------------------------------------------------------
(* Properties of the exports while the clock runs (checked under SpecExport) *)

\* C19: export_workflow never overwrites a previous export: every successful
\* export writes a file that is not yet in the client's export directory,
\* two exports of the same stage within one clock second included.
C19_ExportNeverOverwrites ==
    [][ (resp'.op = "export_workflow" /\ ~resp'.isError)
            => resp'.filename \notin DOMAIN ClientDir(exportFiles, resp'.client) ]_vars

----------------------------------------------------------------------------
(* Properties of the compiled nodes (checked under SpecGraph) *)

NodeLinesOf(id) ==
    {k \in DOMAIN resp.lines : resp.lines[k].kind = "node" /\ resp.lines[k].task = id}

\* C20: the compiler emits exactly one node for every surviving task,
\* whatever the stage of the task: each task of the filtered set has exactly
\* one node definition in the compiled graph, and no node definition is for a
\* task outside the filtered set.
C20_OneNodePerSurvivingTask ==
    CompileCalled =>
        /\ \A t \in Range(resp.filteredTasks) : Cardinality(NodeLinesOf(t.id)) = 1
        /\ \A k \in DOMAIN resp.lines :
               resp.lines[k].kind = "node"
                   => resp.lines[k].task \in IdsOf(resp.filteredTasks)

AnnotateCalled == resp.op = "generateBeautifulMermaidDiagram"

PresentationIds == {START, COMPLETE, ROUTE, CONVERGE, M1, M2, M3, M5, M6, T014, T015}

TaskNodesIn(code) == {l.task : l \in {x \in Range(code) : x.kind = "node"}}

\* The edges between task and decision nodes: those of neither end a
\* presentation node.
TaskEdgesIn(code) ==
    { <<l.from, l.to, l.label, l.style>> :
        l \in {x \in EdgesOf(code) :
                 x.from \notin PresentationIds /\ x.to \notin PresentationIds} }

\* C17: the annotated compilation never alters connectivity: for the same
\* filtered tasks and answers, the task nodes defined in the annotated
\* diagram and its edges between task and decision nodes are those of the
\* plain compiler's diagram.
C17_AnnotatedSameConnectivity ==
    AnnotateCalled =>
        LET plain == generateMermaidDiagram(resp.filteredTasks, tasks,
                                            AnswersOf(clientDecisions, resp.client))
        IN  /\ TaskNodesIn(resp.lines) = TaskNodesIn(plain)
            /\ TaskEdgesIn(resp.lines) = TaskEdgesIn(plain)

----------------------------------------------------------------------------
(* Properties of the compiled edges (checked under SpecGraph) *)

\* A task whose edges the compiler routes through a runtime decision node.
RuntimeGuarded(T) ==
    /\ T.guard_condition # <<>>
    /\ T.decision_id # Null
    /\ StartsWith(T.decision_id, RuntimePrefix)

\* The included declared predecessors of T, or the substituted ancestor.
ResolvedPreds(T, included) ==
    LET direct == {p \in Range(T.predecessors) : p \in included}
        ancestor == findClosestIncludedAncestor(T, tasks, included)
    IN  IF direct # {} THEN direct
        ELSE IF T.predecessors # <<>> /\ ancestor # Null THEN {ancestor}
        ELSE {}

EntryTaskIds == {DISP_L_001, DISP_SL_001}

\* C21, for the tasks that are not the entry tasks of the two container
\* paths: for every surviving task T with a guard condition and a runtime
\* gating decision, and for every resolved predecessor P of T, the compiled
\* graph holds an edge from P to a decision node and an edge from that
\* decision node to T.
C21_EveryPredecessorReachesDecision ==
    CompileCalled =>
        \A i \in DOMAIN resp.filteredTasks :
            LET T == resp.filteredTasks[i]
            IN  (RuntimeGuarded(T) /\ T.id \notin EntryTaskIds) =>
                    \A P \in ResolvedPreds(T, IdsOf(resp.filteredTasks)) :
                        \E d \in DecisionNodes :
                            /\ HasEdge(NodeId(P), d)
                            /\ HasEdge(d, NodeId(T.id))

\* The decision nodes that the edge loop synthesizes for runtime guards.
GuardDecisionNodes == DecisionNodes \ {DEC_C_SEC_01}

\* The surviving runtime-guarded tasks whose edges the loop emits.
GuardedWithPredecessor ==
    {T \in Range(resp.filteredTasks) :
        /\ RuntimeGuarded(T)
        /\ ResolvedPreds(T, IdsOf(resp.filteredTasks)) # {}
        /\ ~SkipsDefaultEdges(T, AnswersOf(clientDecisions, resp.client))}

\* C22: the compiled graph holds as many runtime decision nodes as there are
\* distinct runtime gating decision ids among the surviving guarded tasks that
\* have a resolved predecessor, so that two tasks gated by the same runtime
\* decision share one decision node.
C22_OneDecisionNodePerGatingDecision ==
    CompileCalled =>
        Cardinality(GuardDecisionNodes)
            = Cardinality({T.decision_id : T \in GuardedWithPredecessor})

----------------------------------------------------------------------------
(* Properties of the loop back edges (checked under SpecGraph) *)

\* The label of the back edge of a loop end.
LoopCondition(T) ==
    ReplaceAllCI(T.loop_exit_condition, RunningTotalPattern, TargetNotReached)

\* The back edges that the compiled graph holds for the loop end T.
BackEdges(T) ==
    {l \in EdgesOf(resp.lines) :
        /\ l.from = NodeId(T.id)
        /\ l.style = "dashed"
        /\ l.label = LoopCondition(T)}

\* The positions of the surviving tasks that name id as a predecessor.
Naming(id) ==
    {j \in DOMAIN resp.filteredTasks : id \in Range(resp.filteredTasks[j].predecessors)}

\* The back edge from T to the first surviving task that names id, if any.
ExpectedBackEdges(T, id) ==
    IF Naming(id) = {} THEN {}
    ELSE LET first == CHOOSE j \in Naming(id) : \A k \in Naming(id) : j <= k
         IN  {EdgeLine(NodeId(T.id), NodeId(resp.filteredTasks[first].id),
                       LoopCondition(T), "dashed")}

SurvivingLoopEnds ==
    {T \in Range(resp.filteredTasks) :
        T.type = "Loop-End" /\ T.loop_exit_condition # <<>>}

PairedLoopEnds == {DISP_L_002, DISP_SL_006}

----------------------------------------------------------------------------
(* Properties of validate_workflow's orphan check (checked under SpecGraph) *)

\* The positions of the orphan issues reported about the task with this id.
OrphanIssuesAbout(id) ==
    {n \in DOMAIN resp.issues :
        resp.issues[n].check = "orphan" /\ resp.issues[n].task = id}

\* An included task with predecessors none of which is included.
Orphaned(T) ==
    /\ T.predecessors # <<>>
    /\ Range(T.predecessors) \cap IdsOf(resp.filteredTasks) = {}

\* C25: validate_workflow reports exactly one orphan issue for every included
\* task with predecessors none of which is included: an info that names the
\* substituted ancestor when findClosestIncludedAncestor finds one, a warning
\* when it finds none; it reports no orphan issue for any other task.
C25_OneOrphanIssuePerOrphanedTask ==
    (ValidateCalled /\ ~resp.isError) =>
        /\ \A T \in Range(resp.filteredTasks) :
               LET ancestor ==
                       findClosestIncludedAncestor(T, tasks, IdsOf(resp.filteredTasks))
               IN  IF Orphaned(T)
                   THEN /\ Cardinality(OrphanIssuesAbout(T.id)) = 1
                        /\ \A n \in OrphanIssuesAbout(T.id) :
                               IF ancestor = Null
                               THEN resp.issues[n] = OrphanWarning(T)
                               ELSE resp.issues[n] = OrphanInfo(T, ancestor)
                   ELSE OrphanIssuesAbout(T.id) = {}
        /\ \A n \in DOMAIN resp.issues :
               resp.issues[n].check = "orphan" =>
                   \E T \in Range(resp.filteredTasks) : resp.issues[n].task = T.id

\* A validation that reports an info about a task linked to a distant
\* ancestor, with another included task that has an included predecessor.
C25_Witness ==
    /\ ValidateCalled
    /\ ~resp.isError
    /\ \E n \in DOMAIN resp.issues :
           /\ resp.issues[n].check = "orphan"
           /\ resp.issues[n].level = "info"
    /\ \E T \in Range(resp.filteredTasks) :
           T.predecessors # <<>> /\ ~Orphaned(T)

----------------------------------------------------------------------------
(* Properties of the order of the ancestor search (checked under SpecAncestor) *)

\* The declared predecessors of the library task with this id, none for an
\* id that names no task.
PredsOf(id) == IF HasTask(tasks, id) THEN FindTask(tasks, id).predecessors ELSE <<>>

RECURSIVE ExpandAll(_)
ExpandAll(ids) ==
    IF ids = <<>> THEN <<>> ELSE PredsOf(Head(ids)) \o ExpandAll(Tail(ids))

\* The ids at n predecessor hops from the searched task, in the order in
\* which a breadth-first walk meets them when the predecessors of each task
\* are taken in their declared order.
RECURSIVE Level(_)
Level(n) == IF n = 1 THEN resp.task.predecessors ELSE ExpandAll(Level(n - 1))

\* No shortest walk to an id is longer than the library plus one.
MaxDistance == Len(tasks) + 1

IncludedAt(n) ==
    {i \in DOMAIN Level(n) : Level(n)[i] \in resp.includedTaskIds}

\* C26: an id returned by findClosestIncludedAncestor is an included ancestor
\* at the least number of predecessor hops from the task, and among the
\* included ancestors at that distance it is the one met first in
\* breadth-first order with the predecessors taken in declared order.
C26_NearestFirstInBreadthFirstOrder ==
    (AncestorCalled /\ resp.result # Null) =>
        \E d \in 1..MaxDistance :
            /\ \A m \in 1..(d - 1) : IncludedAt(m) = {}
            /\ \E i \in IncludedAt(d) :
                   /\ \A j \in IncludedAt(d) : i <= j
                   /\ resp.result = Level(d)[i]

\* A search that returns one of two included ancestors, both two hops away.
C26_Witness ==
    /\ AncestorCalled
    /\ resp.result # Null
    /\ IncludedAt(1) = {}
    /\ \E i, j \in IncludedAt(2) : Level(2)[i] # Level(2)[j]

----------------------------------------------------------------------------
(* The ancestor search step by step: one action per path through one       *)
(* iteration of the while loop of findClosestIncludedAncestor, the queue,  *)
(* the visited set and the ids whose predecessors were looked up kept in   *)
(* resp.                                                                   *)

\* Variant: the visited set is never extended.
MarkVisited_Never(visited, currentId) == visited

\* visited.add(currentId)
MarkVisited(visited, currentId) == visited \cup {currentId}

InitSearch ==
    /\ \E pa \in PredLists, pb \in PredLists :
           tasks = << Plain(Id_a, pa), Plain(Id_b, pb) >>
    /\ decisions = <<>>
    /\ clientDecisions = EmptyMap
    /\ clientWorkflows = EmptyMap
    /\ \E inc \in SUBSET AncestorIds :
           resp = [op |-> "none", isError |-> FALSE, error |-> "none",
                   includedTaskIds |-> inc]
    /\ RestInit

Searching == resp.op = "findClosestIncludedAncestor" /\ resp.pc = "while"
Returned == resp.op = "findClosestIncludedAncestor" /\ resp.pc = "done"

\* The call: an empty visited set and the queue of the task's predecessors.
SearchCall ==
    /\ resp.op = "none"
    /\ resp' = [op |-> "findClosestIncludedAncestor", isError |-> FALSE,
                error |-> "none", pc |-> "while", task |-> tasks[1],
                includedTaskIds |-> resp.includedTaskIds,
                queue |-> tasks[1].predecessors, visited |-> {},
                expanded |-> <<>>, result |-> Undefined]
    /\ UNCHANGED <<tasks, decisions, clientDecisions, clientWorkflows>>
    /\ UNCHANGED aside

\* if (visited.has(currentId)) continue;
SearchSkip ==
    /\ Searching
    /\ resp.queue # <<>>
    /\ Head(resp.queue) \in resp.visited
    /\ resp' = [resp EXCEPT !.queue = Tail(resp.queue)]
    /\ UNCHANGED <<tasks, decisions, clientDecisions, clientWorkflows>>
    /\ UNCHANGED aside

\* if (includedTaskIds.has(currentId)) return currentId;
SearchFound ==
    /\ Searching
    /\ resp.queue # <<>>
    /\ Head(resp.queue) \notin resp.visited
    /\ Head(resp.queue) \in resp.includedTaskIds
    /\ resp' = [resp EXCEPT !.queue = Tail(resp.queue),
                            !.visited = MarkVisited(resp.visited, Head(resp.queue)),
                            !.pc = "done",
                            !.result = Head(resp.queue)]
    /\ UNCHANGED <<tasks, decisions, clientDecisions, clientWorkflows>>
    /\ UNCHANGED aside

\* The look-up of the current task and the push of its predecessors.
SearchExpand ==
    /\ Searching
    /\ resp.queue # <<>>
    /\ Head(resp.queue) \notin resp.visited
    /\ Head(resp.queue) \notin resp.includedTaskIds
    /\ LET currentId == Head(resp.queue)
           more == IF HasTask(tasks, currentId)
                   THEN FindTask(tasks, currentId).predecessors
                   ELSE <<>>
       IN  resp' = [resp EXCEPT !.queue = Tail(resp.queue) \o more,
                                !.visited = MarkVisited(resp.visited, currentId),
                                !.expanded = Append(resp.expanded, currentId)]
    /\ UNCHANGED <<tasks, decisions, clientDecisions, clientWorkflows>>
    /\ UNCHANGED aside

\* The end of the while loop: return null.
SearchExhausted ==
    /\ Searching
    /\ resp.queue = <<>>
    /\ resp' = [resp EXCEPT !.pc = "done", !.result = Null]
    /\ UNCHANGED <<tasks, decisions, clientDecisions, clientWorkflows>>
    /\ UNCHANGED aside

NextSearch ==
    SearchCall \/ SearchSkip \/ SearchFound \/ SearchExpand \/ SearchExhausted

\* The function is synchronous code: once called, it runs its next step.
SpecSearch == InitSearch /\ [][NextSearch]_vars /\ WF_vars(NextSearch)

\* No id has its predecessors looked up twice in one search.
ExpandedOnce ==
    resp.op = "findClosestIncludedAncestor" =>
        \A i, j \in DOMAIN resp.expanded :
            resp.expanded[i] = resp.expanded[j] => i = j

\* C27: on every library, with cycles, self-references and repeated
\* predecessors, a call of findClosestIncludedAncestor returns, and during
\* the search the predecessors of each id are looked up at most once.
C27_SearchTerminates ==
    /\ []ExpandedOnce
    /\ (Searching ~> Returned)

\* A search on a library in which the first task is its own ancestor, that
\* has returned null after looking up the predecessors of two ids.
C27_Witness ==
    /\ Returned
    /\ resp.task.id \in resp.visited
    /\ Len(resp.expanded) >= 2
    /\ resp.result = Null

----------------------------------------------------------------------------
(* Properties of the edge endpoints (checked under SpecGraph) *)

\* The node ids an edge of the compiled graph may start or end at.
SurvivingNodeIds == {NodeId(T.id) : T \in Range(resp.filteredTasks)}

\* C28: in every compiled graph each endpoint of each edge is the node of a
\* task of the filtered set or a decision node that the same compilation
\* emitted; no edge starts or ends at an excluded task or at a task outside
\* the stage filter.
C28_NoDanglingEdges ==
    CompileCalled =>
        \A l \in EdgesOf(resp.lines) :
            /\ l.from \in SurvivingNodeIds \cup DecisionNodes
            /\ l.to \in SurvivingNodeIds \cup DecisionNodes

\* A compiled graph with an edge into a task one of whose declared
\* predecessors is not in the filtered set, and with a decision node.
C28_Witness ==
    /\ CompileCalled
    /\ DecisionNodes # {}
    /\ \E T \in Range(resp.filteredTasks) :
           /\ \E p \in Range(T.predecessors) : NodeId(p) \notin SurvivingNodeIds
           /\ \E l \in EdgesOf(resp.lines) : l.to = NodeId(T.id)

\* C29, for a library that holds the junction task DISP-017: in every
\* compiled graph for the answer "Both (material-dependent)" to Q-SEC-01,
\* each included entry task (DISP-L-001, DISP-SL-001) has an incoming edge
\* from the routing decision node, whether or not the junction task is in
\* the included set.
C29_EntryTaskRoutedWhenSuppressed ==
    ( /\ CompileCalled
      /\ HasTask(tasks, DISP_017)
      /\ isBothPathsOf(AnswersOf(clientDecisions, resp.client)) )
    => \A T \in Range(resp.filteredTasks) :
           T.id \in EntryTaskIds => HasEdge(DEC_C_SEC_01, NodeId(T.id))

----------------------------------------------------------------------------
(* Properties of saves of different clients in flight together (checked
   under SpecConcurrent) *)

\* C30: under every interleaving of save_client_decision calls, the write of
\* a call that returns success for one client leaves the stored answers of
\* every other client as they were.
C30_SaveLeavesOtherClients ==
    [][ \A k \in DOMAIN saveCalls :
            (saveCalls[k].pc = "saveClientDecisions" /\ saveCalls'[k].pc = "done")
            => \A c \in ConcurrentClients \ {saveCalls[k].client} :
                   AnswersOf(clientDecisions', c) = AnswersOf(clientDecisions, c) ]_vars

====
